---- MODULE Spec2Model ----
(***************************************************************************)
(* Model of the Autoflow test runner page (TestRunPage) and of the         *)
(* execution engine it talks to over a TestRunnerWebSocket.                *)
(*                                                                         *)
(* The page (React state, callbacks, socket handlers) is translated from   *)
(* src/frontend/src/app/layout.tsx.  Every `await` of an async callback    *)
(* is a point where other callbacks and socket events may run, so each     *)
(* async callback is split into one action per segment between awaits.     *)
(*                                                                         *)
(* The engine behind the socket (Step Sequencer, Healing Coordinator,      *)
(* Approval Gate) and the socket class itself are not part of the          *)
(* sources; they are modelled from the written specification (sections     *)
(* 4-6).  An event is handed to the page in the same step in which the     *)
(* engine produces it: the channel is ordered and has a single reader, so  *)
(* the page sees exactly the sequences the engine generates, cut short     *)
(* where the page disconnects.                                             *)
(***************************************************************************)
EXTENDS Integers, Sequences, FiniteSets, TLC

(* ---------------------------- bounds ----------------------------------- *)
\* number of steps of the stored test when the page is opened
NumSteps == 2
\* number of sockets startRun may create in one behaviour
MaxRuns == 2
\* number of deleteStep calls issued in one behaviour
MaxDeletes == 1
\* number of events the engines emit in one behaviour
MaxEvents == 8

\* number of updateSetting calls in one behaviour
MaxUpdates == 2

\* number of addStep calls in one behaviour
MaxAdds == 3
\* number of times the effect of the recording page runs
MaxMounts == 1
\* number of chat messages in one behaviour
MaxMessages == 1
\* number of Save Test clicks in one behaviour
MaxSaves == 1

(* ---------------------------- constants -------------------------------- *)
\* confidence is kept in percent (0.92 -> 92)
HighConfidence == 92
LowConfidence == 50
DefaultThreshold == 85

NoSocket == 0
NoId == 0
Undef == "undefined"
NoError == "null"

Runs == 1..MaxRuns
Confidences == {LowConfidence, HighConfidence}

Selectors == <<"#s1", "#s2", "#s3", "#s4", "#s5">>
HealedSelectors == <<"#h1", "#h2", "#h3", "#h4", "#h5">>

SelectorOf(id) == IF id \in 1..Len(Selectors) THEN Selectors[id] ELSE "#s"
SuggestedFor(id) == IF id \in 1..Len(HealedSelectors) THEN HealedSelectors[id] ELSE "#h"

(* -------------------------- sequence helpers --------------------------- *)
FilterSeq(s, keep(_)) == SelectSeq(s, keep)

MapSeq(s, f(_)) == [k \in 1..Len(s) |-> f(s[k])]

(* ------------------------------ state ---------------------------------- *)
VARIABLES
  \* React state of TestRunPage
  test, stepStatuses, runStatus, ws, error, metrics,
  healingSuggestions, showHealing, isHealingProcessing, pendingApproval,
  \* sockets created by startRun, and the pending async callbacks
  loadTask, sock, delTasks, delCount, healTask,
  \* the backend: stored test, healing policy, one engine run per socket
  stored, srv,
  \* history: the run whose approval_request is shown (0: none), whether the
  \* request shown was already answered, the runs Stop was pressed in, the
  \* request awaiting its next step event, the number of events emitted
  pendingFrom, answered, stoppedRuns, gate, emitted,
  \* history: the kinds of step event the page has handled so far
  noted

pageVars == <<test, stepStatuses, runStatus, ws, error, metrics,
              healingSuggestions, showHealing, isHealingProcessing, pendingApproval>>
taskVars == <<loadTask, sock, delTasks, delCount, healTask>>
backVars == <<stored, srv>>
histVars == <<pendingFrom, answered, stoppedRuns, gate, emitted, noted>>

\* the other pages and stores of the application (each has a specification
\* of its own below; the run page leaves them alone)
VARIABLES
  \* React state of SettingsPage, the calls of updateSetting, the backend copy
  settings, loading, saving, saved, updates, serverSettings,
  \* useTimelineStore (timelineSteps is its steps), and the number of ids crypto.randomUUID has produced
  timelineSteps, selectedStepId, idCount,
  \* Home: its ws state and the runs of its WebSocket effect, useChatStore,
  \* useBrowserStore (browserStatus is its status)
  homeWs, sessions, messages, isTyping, sessionId, browserStatus, screenshot, currentUrl,
  \* the pending testsApi.create calls of handleSaveTest
  saveTasks

settingsVars == <<settings, loading, saving, saved, updates, serverSettings>>
timelineVars == <<timelineSteps, selectedStepId, idCount>>
homeVars == <<homeWs, sessions, messages, isTyping, sessionId, browserStatus, screenshot, currentUrl, saveTasks>>
otherVars == <<settingsVars, timelineVars, homeVars>>

vars == <<pageVars, taskVars, backVars, histVars, otherVars>>

(* ----------------------- the stored test (backend) --------------------- *)
\* the test the page is opened on: a navigate, then fill / click steps
TypeOf(id) == IF id = 1 THEN "navigate" ELSE IF id = 2 THEN "click" ELSE "fill"

StoredTest ==
  [k \in 1..NumSteps |->
     [id |-> k, type |-> TypeOf(k), selector |-> SelectorOf(k), value |-> "v"]]

StoredIds(steps) == {steps[k].id : k \in 1..Len(steps)}

\* testsApi.deleteStep: the stored test without the step of that id
RemoveStored(steps, stepId) == FilterSeq(steps, LAMBDA s : s.id # stepId)

\* healingApi.approveSuggestionForStep: rewrite the stored step's selector
PersistSelector(steps, stepId, sel) ==
  MapSeq(steps, LAMBDA s : IF s.id = stepId THEN [s EXCEPT !.selector = sel] ELSE s)

(* ----------------------- pure parts of the page ------------------------ *)
\* variant of the mapping that takes the index from the stored step's id
FromStoredById(steps) ==
  [k \in 1..Len(steps) |->
     [index |-> steps[k].id - 1, id |-> steps[k].id, type |-> steps[k].type,
      status |-> "pending", selector |-> steps[k].selector,
      value |-> steps[k].value, error |-> Undef, original_selector |-> Undef]]

\* loadTest / deleteStep: data.latest_version.steps.map((s, i) => ...)
FromStored(steps) ==
  [k \in 1..Len(steps) |->
     [index |-> k - 1, id |-> steps[k].id, type |-> steps[k].type,
      status |-> "pending", selector |-> steps[k].selector,
      value |-> steps[k].value, error |-> Undef, original_selector |-> Undef]]

\* startRun: prev.map((s) => ({ ...s, status: 'pending' }))
ResetStatuses(prev) == MapSeq(prev, LAMBDA s : [s EXCEPT !.status = "pending"])

\* variant of the 'step' handler that ignores the index of the event
StepHandlerAll(prev, step) ==
  MapSeq(prev, LAMBDA s : [s EXCEPT !.status = step.status, !.error = step.error])

\* 'step' handler: only status and error of the entries with that index
StepHandler(prev, step) ==
  MapSeq(prev, LAMBDA s : IF s.index = step.index
                          THEN [s EXCEPT !.status = step.status, !.error = step.error]
                          ELSE s)

\* 'metrics' handler
MetricsHandler(prev, metricsData) == Append(prev, metricsData)

\* variant of the 'healing' handler that puts the new suggestion first
HealingHandlerFirst(prev, healingData) == <<healingData>> \o prev

\* 'healing' handler, the list
HealingHandler(prev, healingData) == Append(prev, healingData)

\* 'healing' handler, the panel
HealingShow(shown, healingData) == IF ~healingData.auto_approved THEN TRUE ELSE shown

\* handleApproveHealing after a successful persist: the suggestions
MarkApproved(prev, suggestion) ==
  MapSeq(prev, LAMBDA s : IF s.step_index = suggestion.step_index
                          THEN [s EXCEPT !.auto_approved = TRUE] ELSE s)

\* handleApproveHealing after a successful persist: the steps
ApplySelector(prev, suggestion) ==
  MapSeq(prev, LAMBDA s : IF s.index = suggestion.step_index
                          THEN [s EXCEPT !.selector = suggestion.suggested_selector,
                                         !.original_selector = suggestion.original_selector]
                          ELSE s)

\* handleRejectHealing
RejectFilter(prev, suggestion) ==
  FilterSeq(prev, LAMBDA s : s.step_index # suggestion.step_index)

\* healingSuggestions.filter((s) => !s.auto_approved)
PendingSuggestions(list) == FilterSeq(list, LAMBDA s : ~s.auto_approved)

\* stepStatuses[suggestion.step_index]?.id, NoId when there is none
StepIdAt(ids, stepIndex) ==
  IF stepIndex + 1 \in 1..Len(ids) THEN ids[stepIndex + 1] ELSE NoId

IdsOf(list) == [k \in 1..Len(list) |-> list[k].id]

(* ----------------------- the engine (from the spec) -------------------- *)
\* the healing policy in force (external configuration, read-only here)
policy == [enabled |-> TRUE, autoApprove |-> TRUE, threshold |-> DefaultThreshold]

\* Decision rule of the Healing Coordinator
AutoApproved(pol, confidence) ==
  pol.enabled /\ pol.autoApprove /\ confidence >= pol.threshold

IdleRun == [phase |-> "off", cur |-> 0, steps |-> <<>>, ok |-> TRUE, conf |-> 0]

NewRun(steps) == [phase |-> "ready", cur |-> 0, steps |-> steps, ok |-> TRUE, conf |-> 0]

\* a run that emitted its terminal event, and a run whose socket was closed
\* by the page: neither emits anything further
DoneRun == [phase |-> "done", cur |-> 0, steps |-> <<>>, ok |-> TRUE, conf |-> 0]
StoppedRun == [phase |-> "stopped", cur |-> 0, steps |-> <<>>, ok |-> TRUE, conf |-> 0]

CurStep(run) == run.steps[run.cur + 1]

\* Approval Gate: a response is meaningful only while a request is outstanding
ReceiveApproval(run, approved) ==
  IF run.phase = "gate"
  THEN [run EXCEPT !.phase = IF approved THEN "retry" ELSE "rejected"]
  ELSE run

\* the socket hands events to the page only while it is connected
Deliverable(r) == sock[r] = "open"

\* an event is emitted (counted towards MaxEvents) and delivered
Emit(r) == Deliverable(r) /\ emitted < MaxEvents /\ emitted' = emitted + 1

\* the run the page is in: the socket startRun created last
CreatedRuns == {r \in Runs : sock[r] # "none"}
CurrentRun == IF CreatedRuns = {} THEN 0 ELSE CHOOSE r \in CreatedRuns : \A q \in CreatedRuns : q <= r

(* -------------------- initial state of the other pages ----------------- *)
\* settings is null, or holds one settings object
NoSettings == <<>>

\* the healing settings the backend holds when the page is opened
DefaultSettings ==
  [enabled |-> TRUE, auto_approve |-> TRUE, auto_approve_threshold |-> DefaultThreshold,
   mode |-> "inline", provider |-> "gemini"]

InitSettings ==
  /\ settings = NoSettings
  /\ loading = TRUE
  /\ saving = FALSE
  /\ saved = FALSE
  /\ updates = <<>>
  /\ serverSettings = DefaultSettings

InitTimeline ==
  /\ timelineSteps = <<>>
  /\ selectedStepId = NoId
  /\ idCount = 0

InitHome ==
  /\ homeWs = NoSocket
  /\ sessions = <<>>
  /\ messages = <<>>
  /\ isTyping = FALSE
  /\ sessionId = NoId
  /\ browserStatus = "idle"
  /\ saveTasks = 0
  /\ screenshot = "null"
  /\ currentUrl = "null"

InitOther == InitSettings /\ InitTimeline /\ InitHome

(* ------------------------------ Init ----------------------------------- *)
Init ==
  /\ test = FALSE
  /\ stepStatuses = <<>>
  /\ runStatus = "idle"
  /\ ws = NoSocket
  /\ error = NoError
  /\ metrics = <<>>
  /\ healingSuggestions = <<>>
  /\ showHealing = FALSE
  /\ isHealingProcessing = FALSE
  /\ pendingApproval = <<>>
  /\ loadTask = "pending"
  /\ sock = [r \in Runs |-> "none"]
  /\ delTasks = {}
  /\ delCount = 0
  /\ healTask = <<>>
  /\ stored = StoredTest
  /\ srv = [r \in Runs |-> IdleRun]
  /\ pendingFrom = 0
  /\ answered = FALSE
  /\ stoppedRuns = {}
  /\ gate = <<>>
  /\ emitted = 0
  /\ noted = {}
  /\ InitOther

(* ------------------- socket handlers of startRun ----------------------- *)
\* variant of the 'step' handler that keeps the old error when the event
\* carries none
OnStepKeepsError(step) ==
  /\ stepStatuses' = MapSeq(stepStatuses,
                            LAMBDA s : IF s.index = step.index
                                       THEN [s EXCEPT !.status = step.status,
                                                      !.error = IF step.error = Undef
                                                                THEN @ ELSE step.error]
                                       ELSE s)
  /\ UNCHANGED <<test, runStatus, ws, error, metrics, healingSuggestions,
                 showHealing, isHealingProcessing, pendingApproval, sock>>

\* socket.on('step', ...)
OnStep(step) ==
  /\ stepStatuses' = StepHandler(stepStatuses, step)
  /\ UNCHANGED <<test, runStatus, ws, error, metrics, healingSuggestions,
                 showHealing, isHealingProcessing, pendingApproval, sock>>

\* variant of the 'metrics' handler that also marks the measured step failed
OnMetricsFailsStep(metricsData) ==
  /\ metrics' = MetricsHandler(metrics, metricsData)
  /\ stepStatuses' = StepHandler(stepStatuses, [index |-> metricsData.step_index,
                                                status |-> "failed", error |-> "slow"])
  /\ UNCHANGED <<test, runStatus, ws, error, healingSuggestions,
                 showHealing, isHealingProcessing, pendingApproval, sock>>

\* socket.on('metrics', ...)
OnMetrics(metricsData) ==
  /\ metrics' = MetricsHandler(metrics, metricsData)
  /\ UNCHANGED <<test, stepStatuses, runStatus, ws, error, healingSuggestions,
                 showHealing, isHealingProcessing, pendingApproval, sock>>

\* variant of the 'healing' handler that also rewrites the step's selector
\* when the suggestion arrives auto-approved
OnHealingApplied(healingData) ==
  /\ healingSuggestions' = HealingHandler(healingSuggestions, healingData)
  /\ showHealing' = HealingShow(showHealing, healingData)
  /\ stepStatuses' = IF healingData.auto_approved
                     THEN ApplySelector(stepStatuses, healingData) ELSE stepStatuses
  /\ UNCHANGED <<test, runStatus, ws, error, metrics,
                 isHealingProcessing, pendingApproval, sock>>

\* socket.on('healing', ...)
OnHealing(healingData) ==
  /\ healingSuggestions' = HealingHandler(healingSuggestions, healingData)
  /\ showHealing' = HealingShow(showHealing, healingData)
  /\ UNCHANGED <<test, stepStatuses, runStatus, ws, error, metrics, isHealingProcessing, pendingApproval, sock>>

\* socket.on('approval_request', ...)
OnApprovalRequest(approvalData) ==
  /\ pendingApproval' = <<approvalData>>
  /\ UNCHANGED <<test, stepStatuses, runStatus, ws, error, metrics, healingSuggestions, showHealing, isHealingProcessing, sock>>

\* variant of the 'complete' handler that leaves the socket connected
OnCompleteKeepOpen(r, data) ==
  /\ runStatus' = IF data.success THEN "passed" ELSE "failed"
  /\ error' = IF ~data.success THEN data.message ELSE error
  /\ ws' = NoSocket
  /\ UNCHANGED <<test, stepStatuses, metrics, healingSuggestions,
                 showHealing, isHealingProcessing, pendingApproval, sock>>

\* socket.on('complete', ...): socket is the one startRun created, ws is reset
OnComplete(r, data) ==
  /\ runStatus' = IF data.success THEN "passed" ELSE "failed"
  /\ error' = IF ~data.success THEN data.message ELSE error
  /\ sock' = [sock EXCEPT ![r] = "closed"]
  /\ ws' = NoSocket
  /\ UNCHANGED <<test, stepStatuses, metrics, healingSuggestions,
                 showHealing, isHealingProcessing, pendingApproval>>

\* socket.on('error', ...)
OnError(r, data) ==
  /\ runStatus' = "failed"
  /\ error' = data.message
  /\ sock' = [sock EXCEPT ![r] = "closed"]
  /\ ws' = NoSocket
  /\ UNCHANGED <<test, stepStatuses, metrics, healingSuggestions,
                 showHealing, isHealingProcessing, pendingApproval>>

(* ------------- the engine emits, the page handles (per run) ------------ *)
StepEvent(run, status) ==
  [index |-> run.cur, status |-> status,
   error |-> IF status = "failed" THEN "step failed" ELSE Undef]

\* history: a step event that finds no entry with its index, and one without
\* error that finds an entry carrying an error
NotedBy(step) ==
  (IF \A k \in 1..Len(stepStatuses) : stepStatuses[k].index # step.index
   THEN {"no entry"} ELSE {})
  \cup (IF \E k \in 1..Len(stepStatuses) :
            /\ stepStatuses[k].index = step.index
            /\ stepStatuses[k].error # Undef /\ step.error = Undef
        THEN {"error erased"} ELSE {})

restOfStep == <<loadTask, delTasks, delCount, healTask, stored, stoppedRuns, otherVars>>
restOfEvent == <<restOfStep, noted>>

\* Sequencer step 1: emit running
SrvStepRunning(r) ==
  /\ Emit(r)
  /\ srv[r].phase \in {"ready", "postnav"}
  /\ srv[r].cur < Len(srv[r].steps)
  /\ srv' = [srv EXCEPT ![r].phase = "exec"]
  /\ OnStep(StepEvent(srv[r], "running"))
  /\ noted' = noted \cup NotedBy(StepEvent(srv[r], "running"))
  /\ gate' = <<>>
  /\ UNCHANGED <<restOfStep, pendingFrom, answered>>

\* Sequencer step 3: success, advance
SrvStepPassed(r) ==
  /\ Emit(r)
  /\ srv[r].phase = "exec"
  /\ srv' = [srv EXCEPT ![r].phase = IF CurStep(srv[r]).type = "navigate"
                                     THEN "postnav" ELSE "ready",
                        ![r].cur = @ + 1]
  /\ OnStep(StepEvent(srv[r], "passed"))
  /\ noted' = noted \cup NotedBy(StepEvent(srv[r], "passed"))
  /\ gate' = <<>>
  /\ UNCHANGED <<restOfStep, pendingFrom, answered>>

\* a step-scoped failure (assertion mismatch, timeout, healing exhausted,
\* second failure after healing, approval rejected): recorded, run goes on
SrvStepFailed(r) ==
  /\ Emit(r)
  /\ srv[r].phase \in {"exec", "retry", "rejected"}
  /\ srv' = [srv EXCEPT ![r].phase = "ready", ![r].cur = @ + 1, ![r].ok = FALSE,
                        ![r].conf = 0]
  /\ OnStep(StepEvent(srv[r], "failed"))
  /\ noted' = noted \cup NotedBy(StepEvent(srv[r], "failed"))
  /\ gate' = <<>>
  /\ UNCHANGED <<restOfStep, pendingFrom, answered>>

\* the healed step was re-executed with the replacement locator
SrvStepHealed(r) ==
  /\ Emit(r)
  /\ srv[r].phase = "retry"
  /\ srv' = [srv EXCEPT ![r].phase = "ready", ![r].cur = @ + 1, ![r].conf = 0]
  /\ OnStep(StepEvent(srv[r], "healed"))
  /\ noted' = noted \cup NotedBy(StepEvent(srv[r], "healed"))
  /\ gate' = <<>>
  /\ UNCHANGED <<restOfStep, pendingFrom, answered>>

\* Healing Coordinator: a locator failure of the first attempt yields the
\* top candidate, auto-approved by the decision rule or left pending
Suggestion(run, pol, confidence) ==
  [step_index |-> run.cur,
   original_selector |-> CurStep(run).selector,
   suggested_selector |-> SuggestedFor(CurStep(run).id),
   confidence |-> confidence,
   auto_approved |-> AutoApproved(pol, confidence)]

SrvHealing(r, confidence) ==
  /\ Emit(r)
  /\ srv[r].phase = "exec"
  /\ CurStep(srv[r]).type # "navigate"
  /\ srv' = [srv EXCEPT ![r].phase = IF AutoApproved(policy, confidence)
                                     THEN "retry" ELSE "suggested",
                        ![r].conf = confidence]
  /\ OnHealing(Suggestion(srv[r], policy, confidence))
  /\ UNCHANGED <<restOfEvent, pendingFrom, answered, gate>>

\* not auto-approved: the Approval Gate is entered
SrvApprovalRequest(r) ==
  /\ Emit(r)
  /\ srv[r].phase = "suggested"
  /\ srv' = [srv EXCEPT ![r].phase = "gate"]
  /\ OnApprovalRequest([step_index |-> srv[r].cur,
                        original_selector |-> CurStep(srv[r]).selector,
                        suggested_selector |-> SuggestedFor(CurStep(srv[r]).id),
                        confidence |-> srv[r].conf])
  /\ pendingFrom' = r
  /\ answered' = FALSE
  /\ gate' = <<[run |-> r, step |-> srv[r].cur, answered |-> FALSE]>>
  /\ UNCHANGED restOfEvent

\* Metrics Collector: after a navigate step passed, optional
SrvMetrics(r) ==
  /\ Emit(r)
  /\ srv[r].phase = "postnav"
  /\ srv' = [srv EXCEPT ![r].phase = "ready"]
  /\ OnMetrics([step_index |-> srv[r].cur - 1, url |-> "url"])
  /\ UNCHANGED <<restOfEvent, pendingFrom, answered, gate>>

\* all steps done: the one terminal event
SrvComplete(r) ==
  /\ Emit(r)
  /\ srv[r].phase \in {"ready", "postnav"}
  /\ srv[r].cur = Len(srv[r].steps)
  /\ srv' = [srv EXCEPT ![r] = DoneRun]
  /\ OnComplete(r, [success |-> srv[r].ok,
                    message |-> IF srv[r].ok THEN "passed" ELSE "completed with failures"])
  /\ gate' = <<>>
  /\ UNCHANGED <<restOfEvent, pendingFrom, answered>>

\* a fatal classification aborts the run at any point
SrvError(r) ==
  /\ Emit(r)
  /\ srv[r].phase \notin {"off", "done", "stopped"}
  /\ srv' = [srv EXCEPT ![r] = DoneRun]
  /\ OnError(r, [message |-> "aborted"])
  /\ gate' = <<>>
  /\ UNCHANGED <<restOfEvent, pendingFrom, answered>>

(* ----------------------------- loadTest -------------------------------- *)
LoadTestOk ==
  /\ loadTask = "pending"
  /\ loadTask' = "done"
  /\ test' = TRUE
  /\ stepStatuses' = FromStored(stored)
  /\ UNCHANGED <<runStatus, ws, error, metrics, healingSuggestions,
                 showHealing, isHealingProcessing, pendingApproval>>
  /\ UNCHANGED <<sock, delTasks, delCount, healTask, backVars, histVars>>
  /\ UNCHANGED otherVars

LoadTestFail ==
  /\ loadTask = "pending"
  /\ loadTask' = "done"
  /\ error' = "Failed to load test"
  /\ UNCHANGED <<test, stepStatuses, runStatus, ws, metrics, healingSuggestions,
                 showHealing, isHealingProcessing, pendingApproval>>
  /\ UNCHANGED <<sock, delTasks, delCount, healTask, backVars, histVars>>
  /\ UNCHANGED otherVars

(* ----------------------------- startRun -------------------------------- *)
\* variant of startRun that keeps the suggestions of the previous run
StartRunKeepsSuggestions(r) ==
  /\ runStatus \in {"idle", "passed", "failed"}
  /\ r = CurrentRun + 1
  /\ r \in Runs
  /\ IF ~test
     THEN /\ runStatus' = "idle"
          /\ UNCHANGED <<error, metrics, healingSuggestions, showHealing, stepStatuses, sock>>
     ELSE /\ runStatus' = "running"
          /\ error' = NoError
          /\ metrics' = <<>>
          /\ showHealing' = FALSE
          /\ stepStatuses' = ResetStatuses(stepStatuses)
          /\ sock' = [sock EXCEPT ![r] = "connecting"]
          /\ UNCHANGED healingSuggestions
  /\ UNCHANGED <<test, ws, isHealingProcessing, pendingApproval>>
  /\ UNCHANGED <<loadTask, delTasks, delCount, healTask, backVars, histVars>>
  /\ UNCHANGED otherVars

\* Run (runStatus idle) or Rerun (passed / failed, which sets idle first);
\* the part of startRun up to `await socket.connect()`
StartRun(r) ==
  /\ runStatus \in {"idle", "passed", "failed"}
  /\ r = CurrentRun + 1
  /\ r \in Runs
  /\ IF ~test
     THEN /\ runStatus' = "idle"
          /\ UNCHANGED <<error, metrics, healingSuggestions, showHealing, stepStatuses, sock>>
     ELSE /\ runStatus' = "running"
          /\ error' = NoError
          /\ metrics' = <<>>
          /\ healingSuggestions' = <<>>
          /\ showHealing' = FALSE
          /\ stepStatuses' = ResetStatuses(stepStatuses)
          /\ sock' = [sock EXCEPT ![r] = "connecting"]
  /\ UNCHANGED <<test, ws, isHealingProcessing, pendingApproval>>
  /\ UNCHANGED <<loadTask, delTasks, delCount, healTask, backVars, histVars>>
  /\ UNCHANGED otherVars

\* connect() resolved: setWs(socket), handlers registered, the engine starts
\* with the stored steps fetched once
ConnectOk(r) ==
  /\ sock[r] = "connecting"
  /\ sock' = [sock EXCEPT ![r] = "open"]
  /\ ws' = r
  /\ srv' = [srv EXCEPT ![r] = NewRun(stored)]
  /\ UNCHANGED <<test, stepStatuses, runStatus, error, metrics, healingSuggestions, showHealing, isHealingProcessing, pendingApproval>>
  /\ UNCHANGED <<loadTask, delTasks, delCount, healTask, stored, histVars>>
  /\ UNCHANGED otherVars

\* connect() rejected: the catch block
ConnectFail(r) ==
  /\ sock[r] = "connecting"
  /\ sock' = [sock EXCEPT ![r] = "closed"]
  /\ runStatus' = "failed"
  /\ error' = "Failed to start test run"
  /\ UNCHANGED <<test, stepStatuses, ws, metrics, healingSuggestions, showHealing, isHealingProcessing, pendingApproval>>
  /\ UNCHANGED <<loadTask, delTasks, delCount, healTask, backVars, histVars>>
  /\ UNCHANGED otherVars

(* ----------------------------- stopRun --------------------------------- *)
\* Stop button (shown while running): ws?.disconnect(); setWs(null); idle
StopRun ==
  /\ runStatus = "running"
  /\ sock' = IF ws # NoSocket THEN [sock EXCEPT ![ws] = "closed"] ELSE sock
  /\ ws' = NoSocket
  /\ runStatus' = "idle"
  /\ stoppedRuns' = stoppedRuns \cup {CurrentRun}
  /\ gate' = <<>>
  /\ UNCHANGED <<test, stepStatuses, error, metrics, healingSuggestions, showHealing, isHealingProcessing, pendingApproval>>
  /\ srv' = IF ws # NoSocket THEN [srv EXCEPT ![ws] = StoppedRun] ELSE srv
  /\ UNCHANGED <<loadTask, delTasks, delCount, healTask, stored, pendingFrom, answered, emitted, noted>>
  /\ UNCHANGED otherVars

(* ----------------------- handleApprovalResponse ------------------------ *)
\* variant of handleApprovalResponse that leaves the request on the page
HandleApprovalResponseKeep(approved) ==
  /\ pendingApproval # <<>>
  /\ IF ws # NoSocket
     THEN /\ srv' = [srv EXCEPT ![ws] = ReceiveApproval(srv[ws], approved)]
          /\ answered' = TRUE
          /\ gate' = IF gate # <<>> /\ gate[1].run = pendingFrom
                     THEN <<[gate[1] EXCEPT !.answered = TRUE]>> ELSE gate
     ELSE UNCHANGED <<srv, answered, gate>>
  /\ UNCHANGED <<test, stepStatuses, runStatus, ws, error, metrics,
                 healingSuggestions, showHealing, isHealingProcessing, pendingApproval>>
  /\ UNCHANGED <<taskVars, stored, pendingFrom, stoppedRuns, emitted, noted>>
  /\ UNCHANGED otherVars

\* Approve / Reject of the InlineApprovalDialog (rendered while
\* pendingApproval is set)
HandleApprovalResponse(approved) ==
  /\ pendingApproval # <<>>
  /\ IF ws # NoSocket
     THEN /\ srv' = [srv EXCEPT ![ws] = ReceiveApproval(srv[ws], approved)]
          /\ pendingApproval' = <<>>
          /\ pendingFrom' = 0
          /\ answered' = FALSE
          /\ gate' = IF gate # <<>> /\ gate[1].run = pendingFrom
                     THEN <<[gate[1] EXCEPT !.answered = TRUE]>> ELSE gate
     ELSE UNCHANGED <<srv, pendingApproval, pendingFrom, answered, gate>>
  /\ UNCHANGED <<test, stepStatuses, runStatus, ws, error, metrics,
                 healingSuggestions, showHealing, isHealingProcessing>>
  /\ UNCHANGED <<taskVars, stored, stoppedRuns, emitted, noted>>
  /\ UNCHANGED otherVars

(* ----------------------------- deleteStep ------------------------------ *)
\* trash button of a step (Steps view, not running, step has an id); the
\* guard of deleteStep is evaluated here, before the first await
DeleteStep(stepId) ==
  /\ ~showHealing
  /\ test /\ runStatus # "running"
  /\ stepId # NoId
  /\ \E k \in 1..Len(stepStatuses) : stepStatuses[k].id = stepId
  /\ delCount < MaxDeletes
  /\ delCount' = delCount + 1
  /\ delTasks' = delTasks \cup {[id |-> stepId, phase |-> "delete"]}
  /\ UNCHANGED <<pageVars, loadTask, sock, healTask, backVars, histVars>>
  /\ UNCHANGED otherVars

\* await testsApi.deleteStep resolved
DeleteApiOk(t) ==
  /\ t \in delTasks /\ t.phase = "delete"
  /\ t.id \in StoredIds(stored)
  /\ stored' = RemoveStored(stored, t.id)
  /\ delTasks' = (delTasks \ {t}) \cup {[t EXCEPT !.phase = "get"]}
  /\ UNCHANGED <<pageVars, loadTask, sock, delCount, healTask, srv, histVars>>
  /\ UNCHANGED otherVars

\* await testsApi.get resolved: the list is replaced
DeleteGetOk(t) ==
  /\ t \in delTasks /\ t.phase = "get"
  /\ test' = TRUE
  /\ stepStatuses' = FromStored(stored)
  /\ delTasks' = delTasks \ {t}
  /\ UNCHANGED <<runStatus, ws, error, metrics, healingSuggestions,
                 showHealing, isHealingProcessing, pendingApproval>>
  /\ UNCHANGED <<loadTask, sock, delCount, healTask, backVars, histVars>>
  /\ UNCHANGED otherVars

\* either await rejected: the catch block
DeleteStepFail(t) ==
  /\ t \in delTasks
  /\ error' = "Failed to delete step"
  /\ delTasks' = delTasks \ {t}
  /\ UNCHANGED <<test, stepStatuses, runStatus, ws, metrics, healingSuggestions,
                 showHealing, isHealingProcessing, pendingApproval>>
  /\ UNCHANGED <<loadTask, sock, delCount, healTask, backVars, histVars>>
  /\ UNCHANGED otherVars

(* ------------- handleApproveHealing / handleApproveAllHealing ---------- *)
\* suggestions whose step has no id are passed over without an await
RECURSIVE SkipNoId(_, _)
SkipNoId(queue, ids) ==
  IF queue = <<>> THEN <<>>
  ELSE IF StepIdAt(ids, Head(queue).step_index) = NoId THEN SkipNoId(Tail(queue), ids)
       ELSE queue

\* run handleApproveHealing for the suggestions of queue, one after the other,
\* up to the next `await healingApi.approveSuggestionForStep`; ids are the
\* step ids of the stepStatuses the callback closed over
ApproveFrom(queue, ids) ==
  LET q == SkipNoId(queue, ids) IN
  /\ healTask' = IF q = <<>> THEN <<>> ELSE <<[queue |-> q, ids |-> ids]>>
  /\ isHealingProcessing' = (q # <<>>)

HealingButtons == showHealing /\ ~isHealingProcessing /\ healTask = <<>>

\* Apply of one suggestion card
HandleApproveHealing(k) ==
  /\ HealingButtons
  /\ k \in 1..Len(healingSuggestions)
  /\ ~healingSuggestions[k].auto_approved
  /\ ApproveFrom(<<healingSuggestions[k]>>, IdsOf(stepStatuses))
  /\ UNCHANGED <<test, stepStatuses, runStatus, ws, error, metrics, healingSuggestions, showHealing, pendingApproval>>
  /\ UNCHANGED <<loadTask, sock, delTasks, delCount, backVars, histVars>>
  /\ UNCHANGED otherVars

\* variant of Apply All that approves the first pending suggestion only
HandleApproveFirstOnly ==
  /\ HealingButtons
  /\ Len(PendingSuggestions(healingSuggestions)) > 1
  /\ ApproveFrom(<<Head(PendingSuggestions(healingSuggestions))>>, IdsOf(stepStatuses))
  /\ UNCHANGED <<test, stepStatuses, runStatus, ws, error, metrics, healingSuggestions, showHealing, pendingApproval>>
  /\ UNCHANGED <<loadTask, sock, delTasks, delCount, backVars, histVars>>
  /\ UNCHANGED otherVars

\* Apply All (shown when more than one suggestion is pending)
HandleApproveAllHealing ==
  /\ HealingButtons
  /\ Len(PendingSuggestions(healingSuggestions)) > 1
  /\ ApproveFrom(PendingSuggestions(healingSuggestions), IdsOf(stepStatuses))
  /\ UNCHANGED <<test, stepStatuses, runStatus, ws, error, metrics, healingSuggestions, showHealing, pendingApproval>>
  /\ UNCHANGED <<loadTask, sock, delTasks, delCount, backVars, histVars>>
  /\ UNCHANGED otherVars

\* the persist call resolved
ApproveApiOk ==
  /\ healTask # <<>>
  /\ LET suggestion == Head(healTask[1].queue)
         stepId == StepIdAt(healTask[1].ids, suggestion.step_index)
     IN /\ stepId \in StoredIds(stored)
        /\ stored' = PersistSelector(stored, stepId, suggestion.suggested_selector)
        /\ healingSuggestions' = MarkApproved(healingSuggestions, suggestion)
        /\ stepStatuses' = ApplySelector(stepStatuses, suggestion)
        /\ ApproveFrom(Tail(healTask[1].queue), healTask[1].ids)
  /\ UNCHANGED <<test, runStatus, ws, error, metrics, showHealing,
                 pendingApproval>>
  /\ UNCHANGED <<loadTask, sock, delTasks, delCount, srv, histVars>>
  /\ UNCHANGED otherVars

\* variant of the catch block that also drops the suggestion
ApproveApiFailDrops ==
  /\ healTask # <<>>
  /\ error' = "Failed to apply healing suggestion"
  /\ healingSuggestions' = RejectFilter(healingSuggestions, Head(healTask[1].queue))
  /\ ApproveFrom(Tail(healTask[1].queue), healTask[1].ids)
  /\ UNCHANGED <<test, stepStatuses, runStatus, ws, metrics, showHealing, pendingApproval>>
  /\ UNCHANGED <<loadTask, sock, delTasks, delCount, backVars, histVars>>
  /\ UNCHANGED otherVars

\* the persist call rejected: catch, finally, next suggestion
ApproveApiFail ==
  /\ healTask # <<>>
  /\ error' = "Failed to apply healing suggestion"
  /\ ApproveFrom(Tail(healTask[1].queue), healTask[1].ids)
  /\ UNCHANGED <<test, stepStatuses, runStatus, ws, metrics, healingSuggestions, showHealing, pendingApproval>>
  /\ UNCHANGED <<loadTask, sock, delTasks, delCount, backVars, histVars>>
  /\ UNCHANGED otherVars

\* Reject of one suggestion card
HandleRejectHealing(k) ==
  /\ HealingButtons
  /\ k \in 1..Len(healingSuggestions)
  /\ ~healingSuggestions[k].auto_approved
  /\ healingSuggestions' = RejectFilter(healingSuggestions, healingSuggestions[k])
  /\ UNCHANGED <<test, stepStatuses, runStatus, ws, error, metrics, showHealing, isHealingProcessing, pendingApproval>>
  /\ UNCHANGED <<taskVars, backVars, histVars>>
  /\ UNCHANGED otherVars

(* ------------------------------- tabs ---------------------------------- *)
\* Steps and Performance tabs both leave the healing panel; which of the two
\* is shown (showMetrics) only selects what is rendered and is not modelled:
\* the Steps tab can be selected at any time
ShowStepsTab ==
  /\ showHealing
  /\ showHealing' = FALSE
  /\ UNCHANGED <<test, stepStatuses, runStatus, ws, error, metrics,
                 healingSuggestions, isHealingProcessing, pendingApproval>>
  /\ UNCHANGED <<taskVars, backVars, histVars>>
  /\ UNCHANGED otherVars

\* Healing tab (rendered when there are suggestions)
ShowHealingTab ==
  /\ Len(healingSuggestions) > 0
  /\ ~showHealing
  /\ showHealing' = TRUE
  /\ UNCHANGED <<test, stepStatuses, runStatus, ws, error, metrics,
                 healingSuggestions, isHealingProcessing, pendingApproval>>
  /\ UNCHANGED <<taskVars, backVars, histVars>>
  /\ UNCHANGED otherVars

(* --------------------------- specification ----------------------------- *)
\* everything the engine of run r may emit
EngineEvent(r) ==
  \/ SrvStepRunning(r)
  \/ SrvStepPassed(r)
  \/ SrvStepFailed(r)
  \/ SrvStepHealed(r)
  \/ \E confidence \in Confidences : SrvHealing(r, confidence)
  \/ SrvApprovalRequest(r)
  \/ SrvMetrics(r)
  \/ SrvComplete(r)
  \/ SrvError(r)

\* the page with up to MaxRuns runs; the step list is not edited
Next ==
  \/ LoadTestOk
  \/ LoadTestFail
  \/ \E r \in Runs : StartRun(r)
  \/ \E r \in Runs : ConnectOk(r)
  \/ \E r \in Runs : ConnectFail(r)
  \/ StopRun
  \/ \E approved \in BOOLEAN : HandleApprovalResponse(approved)
  \/ \E k \in 1..Len(healingSuggestions) : HandleApproveHealing(k)
  \/ HandleApproveAllHealing
  \/ ApproveApiOk
  \/ ApproveApiFail
  \/ \E k \in 1..Len(healingSuggestions) : HandleRejectHealing(k)
  \/ ShowStepsTab
  \/ ShowHealingTab
  \/ \E r \in Runs : EngineEvent(r)

Spec == Init /\ [][Next]_vars

\* the page with deleteStep, around the first run of a test that has one
\* step more, so that two of its steps can be healed
EditRuns == {CHOOSE r \in Runs : \A q \in Runs : r <= q}

EditTest ==
  [k \in 1..(NumSteps + 1) |->
     [id |-> k, type |-> TypeOf(k), selector |-> SelectorOf(k), value |-> "v"]]

InitEdit ==
  /\ test = FALSE
  /\ stepStatuses = <<>>
  /\ runStatus = "idle"
  /\ ws = NoSocket
  /\ error = NoError
  /\ metrics = <<>>
  /\ healingSuggestions = <<>>
  /\ showHealing = FALSE
  /\ isHealingProcessing = FALSE
  /\ pendingApproval = <<>>
  /\ loadTask = "pending"
  /\ sock = [r \in Runs |-> "none"]
  /\ delTasks = {}
  /\ delCount = 0
  /\ healTask = <<>>
  /\ stored = EditTest
  /\ srv = [r \in Runs |-> IdleRun]
  /\ pendingFrom = 0
  /\ answered = FALSE
  /\ stoppedRuns = {}
  /\ gate = <<>>
  /\ emitted = 0
  /\ noted = {}
  /\ InitOther

NextEdit ==
  \/ LoadTestOk
  \/ LoadTestFail
  \/ \E r \in EditRuns : StartRun(r)
  \/ \E r \in EditRuns : ConnectOk(r)
  \/ \E r \in EditRuns : ConnectFail(r)
  \/ StopRun
  \/ \E approved \in BOOLEAN : HandleApprovalResponse(approved)
  \/ \E stepId \in StoredIds(EditTest) : DeleteStep(stepId)
  \/ \E t \in delTasks : DeleteApiOk(t)
  \/ \E t \in delTasks : DeleteGetOk(t)
  \/ \E t \in delTasks : DeleteStepFail(t)
  \/ \E k \in 1..Len(healingSuggestions) : HandleApproveHealing(k)
  \/ HandleApproveAllHealing
  \/ ApproveApiOk
  \/ ApproveApiFail
  \/ \E k \in 1..Len(healingSuggestions) : HandleRejectHealing(k)
  \/ ShowStepsTab
  \/ ShowHealingTab
  \/ \E r \in EditRuns : EngineEvent(r)

SpecEdit == InitEdit /\ [][NextEdit]_vars

\* the whole page: deleteStep around every run of the two-step test
NextFull ==
  \/ Next
  \/ \E stepId \in StoredIds(StoredTest) : DeleteStep(stepId)
  \/ \E t \in delTasks : DeleteApiOk(t)
  \/ \E t \in delTasks : DeleteGetOk(t)
  \/ \E t \in delTasks : DeleteStepFail(t)

SpecFull == Init /\ [][NextFull]_vars

(* ------------------- the auto-heal scenario (spec 8) ------------------- *)
\* a stored test of three steps: a navigate, then two fill / click steps
ScenarioKinds == {"fill", "click"}

ScenarioTest(kind2, kind3) ==
  <<[id |-> 1, type |-> "navigate", selector |-> SelectorOf(1), value |-> "v"],
    [id |-> 2, type |-> kind2, selector |-> SelectorOf(2), value |-> "v"],
    [id |-> 3, type |-> kind3, selector |-> SelectorOf(3), value |-> "v"]>>

\* the page opened on one of these tests
InitScenario ==
  /\ test = FALSE
  /\ stepStatuses = <<>>
  /\ runStatus = "idle"
  /\ ws = NoSocket
  /\ error = NoError
  /\ metrics = <<>>
  /\ healingSuggestions = <<>>
  /\ showHealing = FALSE
  /\ isHealingProcessing = FALSE
  /\ pendingApproval = <<>>
  /\ loadTask = "pending"
  /\ sock = [r \in Runs |-> "none"]
  /\ delTasks = {}
  /\ delCount = 0
  /\ healTask = <<>>
  /\ stored \in {ScenarioTest(kind2, kind3) : kind2 \in ScenarioKinds, kind3 \in ScenarioKinds}
  /\ srv = [r \in Runs |-> IdleRun]
  /\ pendingFrom = 0
  /\ answered = FALSE
  /\ stoppedRuns = {}
  /\ gate = <<>>
  /\ emitted = 0
  /\ noted = {}
  /\ InitOther

\* the engine of the run the page is in, confined to the scenario: every
\* step but the last passes, the last one is healed with high confidence,
\* no metrics are captured
ScenarioEvent(r) ==
  /\ r = CurrentRun
  /\ \/ SrvStepRunning(r)
     \/ srv[r].cur < Len(srv[r].steps) - 1 /\ SrvStepPassed(r)
     \/ srv[r].cur = Len(srv[r].steps) - 1 /\ SrvHealing(r, HighConfidence)
     \/ SrvStepHealed(r)
     \/ SrvComplete(r)

NextScenario ==
  \/ LoadTestOk
  \/ \E r \in Runs : StartRun(r)
  \/ \E r \in Runs : ConnectOk(r)
  \/ \E r \in Runs : ConnectFail(r)
  \/ StopRun
  \/ ShowStepsTab
  \/ ShowHealingTab
  \/ \E r \in Runs : ScenarioEvent(r)

SpecScenario == InitScenario /\ [][NextScenario]_vars

(* ---------------- Apply All on a page with suggestions ----------------- *)
\* a stored test of four steps
ApproveAllTest ==
  Append(ScenarioTest("fill", "click"),
         [id |-> 4, type |-> "click", selector |-> SelectorOf(4), value |-> "v"])

\* per step index: no suggestion (0), or one of that confidence
SuggestionChoices == {0} \cup Confidences

\* the suggestions left by a stopped run, in step order, for the step
\* indices 1..Len(steps); the last index has no step on the page
RECURSIVE SuggestionsLeft(_, _, _)
SuggestionsLeft(steps, choice, i) ==
  IF i > Len(steps) THEN <<>>
  ELSE (IF choice[i] = 0 THEN <<>>
        ELSE <<[step_index |-> i,
                original_selector |-> SelectorOf(i + 1),
                suggested_selector |-> SuggestedFor(i + 1),
                confidence |-> choice[i],
                auto_approved |-> AutoApproved(policy, choice[i])]>>)
       \o SuggestionsLeft(steps, choice, i + 1)

\* the page after a run of the test was stopped: the run's suggestions are
\* still listed, the socket is closed
InitApproveAll ==
  /\ test = TRUE
  /\ stored = ApproveAllTest
  /\ stepStatuses = FromStored(stored)
  /\ runStatus = "idle"
  /\ ws = NoSocket
  /\ error = NoError
  /\ metrics = <<>>
  /\ healingSuggestions \in
       {SuggestionsLeft(ApproveAllTest, choice, 1) :
          choice \in [1..Len(ApproveAllTest) -> SuggestionChoices]}
  /\ showHealing = FALSE
  /\ isHealingProcessing = FALSE
  /\ pendingApproval = <<>>
  /\ loadTask = "done"
  /\ sock = [r \in Runs |-> IF r = 1 THEN "closed" ELSE "none"]
  /\ delTasks = {}
  /\ delCount = 0
  /\ healTask = <<>>
  /\ srv = [r \in Runs |-> IF r = 1 THEN StoppedRun ELSE IdleRun]
  /\ pendingFrom = 0
  /\ answered = FALSE
  /\ stoppedRuns = {1}
  /\ gate = <<>>
  /\ emitted = 0
  /\ noted = {}
  /\ InitOther

\* the healing panel with every persist call succeeding
NextApproveAll ==
  \/ ShowStepsTab
  \/ ShowHealingTab
  \/ \E k \in 1..Len(healingSuggestions) : HandleRejectHealing(k)
  \/ HandleApproveAllHealing
  \/ ApproveApiOk

SpecApproveAll == InitApproveAll /\ [][NextApproveAll]_vars

(* --------------------------- the settings page ------------------------- *)
\* the variables of the run page and its backend
runVars == <<pageVars, taskVars, backVars, histVars>>

\* range of the threshold slider (min / max of the input)
SliderMin == 50
SliderMax == 99

\* positions of the slider that are tried
SliderValues == {SliderMin, DefaultThreshold, SliderMax}

\* parseInt(e.target.value) / 100; thresholds are kept in hundredths, as
\* the confidences are
SliderThreshold(value) == (value * 100) \div 100

\* ids of the healing mode buttons
Modes == {"inline", "batch", "both"}

\* the providers the backend lists
Providers ==
  <<[id |-> "gemini", available |-> TRUE],
    [id |-> "openai", available |-> TRUE],
    [id |-> "anthropic", available |-> FALSE]>>

SettingKeys == {"enabled", "auto_approve", "auto_approve_threshold", "mode", "provider"}

\* { ...settings, [key]: value }
WithSetting(old, key, value) == [old EXCEPT ![key] = value]

\* loadSettings resolved
LoadSettingsOk ==
  /\ loading
  /\ settings' = <<serverSettings>>
  /\ loading' = FALSE
  /\ UNCHANGED <<saving, saved, updates, serverSettings>>
  /\ UNCHANGED <<runVars, timelineVars, homeVars>>

\* loadSettings rejected
LoadSettingsFail ==
  /\ loading
  /\ loading' = FALSE
  /\ UNCHANGED <<settings, saving, saved, updates, serverSettings>>
  /\ UNCHANGED <<runVars, timelineVars, homeVars>>

\* updateSetting up to `await settingsApi.updateHealingSettings`; snapshot
\* is the settings object the call closed over, body the request body
UpdateSetting(key, value) ==
  /\ settings # NoSettings
  /\ Len(updates) < MaxUpdates
  /\ settings' = <<WithSetting(settings[1], key, value)>>
  /\ saving' = TRUE
  /\ saved' = FALSE
  /\ updates' = Append(updates, [key |-> key, value |-> value, snapshot |-> settings[1],
                                 body |-> {<<key, value>>},
                                 phase |-> "pending"])
  /\ UNCHANGED <<loading, serverSettings>>
  /\ UNCHANGED <<runVars, timelineVars, homeVars>>

\* the controls of the Self-Healing tab (rendered once settings are loaded)
ToggleEnabled == settings # NoSettings /\ UpdateSetting("enabled", ~settings[1].enabled)

ToggleAutoApprove ==
  /\ settings # NoSettings /\ settings[1].enabled
  /\ UpdateSetting("auto_approve", ~settings[1].auto_approve)

MoveSlider(value) ==
  /\ settings # NoSettings /\ settings[1].enabled /\ settings[1].auto_approve
  /\ UpdateSetting("auto_approve_threshold", SliderThreshold(value))

ChooseMode(mode) ==
  /\ settings # NoSettings /\ settings[1].enabled
  /\ UpdateSetting("mode", mode)

ChooseProvider(k) ==
  /\ settings # NoSettings /\ settings[1].enabled
  /\ Providers[k].available
  /\ UpdateSetting("provider", Providers[k].id)

\* the backend applies a partial update
ApplyBody(old, body) ==
  [key \in DOMAIN old |->
     IF \E pair \in body : pair[1] = key
     THEN (CHOOSE pair \in body : pair[1] = key)[2] ELSE old[key]]

\* the save resolved: setSaved(true), finally setSaving(false)
SaveOk(i) ==
  /\ i \in 1..Len(updates) /\ updates[i].phase = "pending"
  /\ serverSettings' = ApplyBody(serverSettings, updates[i].body)
  /\ updates' = [updates EXCEPT ![i].phase = "ok"]
  /\ saved' = TRUE
  /\ saving' = FALSE
  /\ UNCHANGED <<settings, loading>>
  /\ UNCHANGED <<runVars, timelineVars, homeVars>>

\* the save rejected: setSettings(settings) with the object closed over
SaveFail(i) ==
  /\ i \in 1..Len(updates) /\ updates[i].phase = "pending"
  /\ settings' = <<updates[i].snapshot>>
  /\ updates' = [updates EXCEPT ![i].phase = "failed"]
  /\ saving' = FALSE
  /\ UNCHANGED <<saved, loading, serverSettings>>
  /\ UNCHANGED <<runVars, timelineVars, homeVars>>

\* setTimeout(() => setSaved(false), 2000)
SavedTimeout ==
  /\ saved
  /\ saved' = FALSE
  /\ UNCHANGED <<settings, loading, saving, updates, serverSettings>>
  /\ UNCHANGED <<runVars, timelineVars, homeVars>>

NextSettings ==
  \/ LoadSettingsOk
  \/ LoadSettingsFail
  \/ ToggleEnabled
  \/ ToggleAutoApprove
  \/ \E value \in SliderValues : MoveSlider(value)
  \/ \E mode \in Modes : ChooseMode(mode)
  \/ \E k \in 1..Len(Providers) : ChooseProvider(k)
  \/ \E i \in 1..Len(updates) : SaveOk(i)
  \/ \E i \in 1..Len(updates) : SaveFail(i)
  \/ SavedTimeout

SpecSettings == Init /\ [][NextSettings]_vars

(* --------------------------- the timeline store ------------------------ *)
\* crypto.randomUUID(): the n-th id produced
Uuid(n) == n

\* the steps a caller may hand to addStep (without id)
NewSteps == {[type |-> "click", selector |-> "#a"]}

\* the Partial<Step> object handed to updateStep
StepUpdates == {[type |-> "assert_text", selector |-> "#e"]}

\* a list of steps with ids of their own, as handed to setSteps
SavedSteps == <<[id |-> 11, type |-> "navigate", selector |-> "#n"]>>

StepLists == {<<>>, SavedSteps}

\* { ...step, ...updates }
Merge(step, changes) ==
  [f \in DOMAIN step |-> IF f \in DOMAIN changes THEN changes[f] ELSE step[f]]

\* list.splice(i, 1) and list.splice(i, 0, x), for 0 <= i <= length
RemoveAt(list, i) == SubSeq(list, 1, i) \o SubSeq(list, i + 2, Len(list))
InsertAt(list, i, x) == SubSeq(list, 1, i) \o <<x>> \o SubSeq(list, i + 1, Len(list))

\* variant of reorderSteps that exchanges the two steps
Exchanged(list, fromIndex, toIndex) ==
  [k \in 1..Len(list) |->
     IF k = fromIndex + 1 THEN list[toIndex + 1]
     ELSE IF k = toIndex + 1 THEN list[fromIndex + 1] ELSE list[k]]

\* reorderSteps: the new list
Reordered(list, fromIndex, toIndex) ==
  InsertAt(RemoveAt(list, fromIndex), toIndex, list[fromIndex + 1])

TimelineIds == {timelineSteps[k].id : k \in 1..Len(timelineSteps)}

\* addStep, on the variables of the store
AddStepStore(step) ==
  /\ idCount < MaxAdds
  /\ idCount' = idCount + 1
  /\ timelineSteps' = Append(timelineSteps,
                             [id |-> Uuid(idCount + 1), type |-> step.type,
                              selector |-> step.selector])
  /\ UNCHANGED selectedStepId

AddStep(step) ==
  /\ AddStepStore(step)
  /\ UNCHANGED <<runVars, settingsVars, homeVars>>

UpdateStep(id, changes) ==
  /\ timelineSteps' = MapSeq(timelineSteps,
                             LAMBDA step : IF step.id = id THEN Merge(step, changes) ELSE step)
  /\ UNCHANGED <<selectedStepId, idCount>>
  /\ UNCHANGED <<runVars, settingsVars, homeVars>>

RemoveStep(id) ==
  /\ timelineSteps' = FilterSeq(timelineSteps, LAMBDA step : step.id # id)
  /\ selectedStepId' = IF selectedStepId = id THEN NoId ELSE selectedStepId
  /\ UNCHANGED idCount
  /\ UNCHANGED <<runVars, settingsVars, homeVars>>

ReorderSteps(fromIndex, toIndex) ==
  /\ timelineSteps' = Reordered(timelineSteps, fromIndex, toIndex)
  /\ UNCHANGED <<selectedStepId, idCount>>
  /\ UNCHANGED <<runVars, settingsVars, homeVars>>

SelectStep(id) ==
  /\ selectedStepId' = id
  /\ UNCHANGED <<timelineSteps, idCount>>
  /\ UNCHANGED <<runVars, settingsVars, homeVars>>

ClearSteps ==
  /\ timelineSteps' = <<>>
  /\ selectedStepId' = NoId
  /\ UNCHANGED idCount
  /\ UNCHANGED <<runVars, settingsVars, homeVars>>

SetSteps(list) ==
  /\ timelineSteps' = list
  /\ UNCHANGED <<selectedStepId, idCount>>
  /\ UNCHANGED <<runVars, settingsVars, homeVars>>

\* the store driven by its callers: ids are ids of steps in the list,
\* positions are positions of the list (handleDragEnd: two different steps)
NextTimeline ==
  \/ \E step \in NewSteps : AddStep(step)
  \/ \E id \in TimelineIds, changes \in StepUpdates : UpdateStep(id, changes)
  \/ \E id \in TimelineIds : RemoveStep(id)
  \/ \E fromIndex, toIndex \in 0..(Len(timelineSteps) - 1) : ReorderSteps(fromIndex, toIndex)
  \/ \E id \in TimelineIds \cup {NoId} : SelectStep(id)
  \/ ClearSteps
  \/ \E list \in StepLists : SetSteps(list)

SpecTimeline == Init /\ [][NextTimeline]_vars

(* --------------------------- the recording page ------------------------ *)
\* one run of the effect: where initSession stands, the socket it created
\* and whether the cleanup of the effect has run
NewSession == [phase |-> "creating", socket |-> "none", cleaned |-> FALSE]

Mounted == Len(sessions) > 0 /\ ~sessions[Len(sessions)].cleaned

chatVars == <<messages, isTyping, sessionId>>
browserVars == <<browserStatus, screenshot, currentUrl>>

\* the effect runs: initSession() is called and waits for createSession()
Mount ==
  /\ Len(sessions) < MaxMounts
  /\ ~Mounted
  /\ sessions' = Append(sessions, NewSession)
  /\ UNCHANGED <<homeWs, chatVars, browserVars>>
  /\ UNCHANGED <<runVars, settingsVars, timelineVars, saveTasks>>

\* AutoflowWebSocket.disconnect(): the socket is closed, a pending connect fails
Disconnected(socket) == IF socket = "none" THEN "none" ELSE "closed"

\* the cleanup of the effect: socket?.disconnect()
Cleanup ==
  /\ Mounted
  /\ sessions' = [sessions EXCEPT ![Len(sessions)] =
                    [@ EXCEPT !.cleaned = TRUE, !.socket = Disconnected(@)]]
  /\ UNCHANGED <<homeWs, chatVars, browserVars>>
  /\ UNCHANGED <<runVars, settingsVars, timelineVars, saveTasks>>

\* createSession() resolves: setSessionId, new AutoflowWebSocket, connect()
CreateSessionOk(i) ==
  /\ sessions[i].phase = "creating"
  /\ sessionId' = i
  /\ sessions' = [sessions EXCEPT ![i] = [@ EXCEPT !.phase = "connecting", !.socket = "connecting"]]
  /\ UNCHANGED <<homeWs, messages, isTyping, browserVars>>
  /\ UNCHANGED <<runVars, settingsVars, timelineVars, saveTasks>>

\* createSession() rejects: the catch logs
CreateSessionFail(i) ==
  /\ sessions[i].phase = "creating"
  /\ sessions' = [sessions EXCEPT ![i] = [@ EXCEPT !.phase = "failed"]]
  /\ UNCHANGED <<homeWs, chatVars, browserVars>>
  /\ UNCHANGED <<runVars, settingsVars, timelineVars, saveTasks>>

\* connect() resolves: the handlers are registered and setWs(socket)
HomeConnectOk(i) ==
  /\ sessions[i].phase = "connecting"
  /\ sessions[i].socket = "connecting"
  /\ sessions' = [sessions EXCEPT ![i] = [@ EXCEPT !.phase = "open", !.socket = "open"]]
  /\ homeWs' = i
  /\ UNCHANGED <<chatVars, browserVars>>
  /\ UNCHANGED <<runVars, settingsVars, timelineVars, saveTasks>>

\* connect() rejects: the catch logs
HomeConnectFail(i) ==
  /\ sessions[i].phase = "connecting"
  /\ sessions' = [sessions EXCEPT ![i] = [@ EXCEPT !.phase = "failed", !.socket = "closed"]]
  /\ UNCHANGED <<homeWs, chatVars, browserVars>>
  /\ UNCHANGED <<runVars, settingsVars, timelineVars, saveTasks>>

\* the socket of session i delivers events to its handlers
Delivers(i) == sessions[i].phase = "open" /\ sessions[i].socket = "open"

AddMessage(role, content) ==
  /\ Len(messages) < MaxMessages
  /\ messages' = Append(messages, [role |-> role, content |-> content])

ChatRoles == {"assistant", "user"}

OnChat(i, role) ==
  /\ Delivers(i)
  /\ IF role = "assistant"
       THEN isTyping' = FALSE /\ AddMessage("assistant", "reply")
       ELSE UNCHANGED <<isTyping, messages>>
  /\ UNCHANGED <<homeWs, sessions, sessionId, browserVars>>
  /\ UNCHANGED <<runVars, settingsVars, timelineVars, saveTasks>>

StatusValues == {"thinking", "starting_browser", "running", "stopped", "paused"}

OnStatus(i, value) ==
  /\ Delivers(i)
  /\ isTyping' = IF value = "thinking" THEN TRUE ELSE isTyping
  /\ browserStatus' = IF value = "starting_browser" THEN "starting"
                      ELSE IF value = "running" THEN "running"
                      ELSE IF value = "stopped" THEN "stopped" ELSE browserStatus
  /\ UNCHANGED <<homeWs, sessions, messages, sessionId, screenshot, currentUrl>>
  /\ UNCHANGED <<runVars, settingsVars, timelineVars, saveTasks>>

OnScreenshot(i) ==
  /\ Delivers(i)
  /\ screenshot' = "image"
  /\ UNCHANGED <<homeWs, sessions, chatVars, browserStatus, currentUrl>>
  /\ UNCHANGED <<runVars, settingsVars, timelineVars, saveTasks>>

\* the actions the recorder reports
HomeActions ==
  {[type |-> "click", selector |-> "#a", value |-> Undef],
   [type |-> "navigate", selector |-> Undef, value |-> "/page"]}

OnAction(i, action) ==
  /\ Delivers(i)
  /\ AddStepStore(action)
  /\ currentUrl' = IF action.type = "navigate" /\ action.value # Undef
                     THEN action.value ELSE currentUrl
  /\ UNCHANGED <<homeWs, sessions, chatVars, browserStatus, screenshot>>
  /\ UNCHANGED <<runVars, settingsVars, saveTasks>>

OnHomeComplete(i, success) ==
  /\ Delivers(i)
  /\ browserStatus' = "stopped"
  /\ AddMessage("assistant", IF success THEN "Automation complete" ELSE "Automation failed")
  /\ UNCHANGED <<homeWs, sessions, isTyping, sessionId, screenshot, currentUrl>>
  /\ UNCHANGED <<runVars, settingsVars, timelineVars, saveTasks>>

OnHomeError(i) ==
  /\ Delivers(i)
  /\ browserStatus' = "error"
  /\ isTyping' = FALSE
  /\ AddMessage("assistant", "Error")
  /\ UNCHANGED <<homeWs, sessions, sessionId, screenshot, currentUrl>>
  /\ UNCHANGED <<runVars, settingsVars, timelineVars, saveTasks>>

\* an event of the socket of session i handled by the page
HomeEvent(i) ==
  \/ \E role \in ChatRoles : OnChat(i, role)
  \/ \E value \in StatusValues : OnStatus(i, value)
  \/ OnScreenshot(i)
  \/ \E action \in HomeActions : OnAction(i, action)
  \/ \E success \in BOOLEAN : OnHomeComplete(i, success)
  \/ OnHomeError(i)

HandleSendMessage ==
  /\ Mounted
  /\ homeWs # NoSocket
  /\ AddMessage("user", "text")
  /\ isTyping' = TRUE
  /\ UNCHANGED <<homeWs, sessions, sessionId, browserVars>>
  /\ UNCHANGED <<runVars, settingsVars, timelineVars, saveTasks>>

\* BrowserView shows the stop button while starting or running, else start
IsRunning == browserStatus \in {"running", "starting"}

HandleStartAutomation ==
  /\ Mounted /\ ~IsRunning
  /\ homeWs # NoSocket
  /\ browserStatus' = "starting"
  /\ UNCHANGED <<homeWs, sessions, chatVars, screenshot, currentUrl>>
  /\ UNCHANGED <<runVars, settingsVars, timelineVars, saveTasks>>

HandleStopAutomation ==
  /\ Mounted /\ IsRunning
  /\ homeWs # NoSocket
  /\ browserStatus' = "stopped"
  /\ UNCHANGED <<homeWs, sessions, chatVars, screenshot, currentUrl>>
  /\ UNCHANGED <<runVars, settingsVars, timelineVars, saveTasks>>

\* Save Test (shown with a step in the timeline) up to `await testsApi.create`
HandleSaveTest ==
  /\ Mounted
  /\ Len(timelineSteps) > 0
  /\ saveTasks < MaxSaves
  /\ saveTasks' = saveTasks + 1
  /\ UNCHANGED <<homeWs, sessions, chatVars, browserVars>>
  /\ UNCHANGED <<runVars, settingsVars, timelineVars>>

\* testsApi.create resolved: the assistant message is added
SaveTestOk ==
  /\ saveTasks > 0
  /\ saveTasks' = saveTasks - 1
  /\ AddMessage("assistant", "Test saved")
  /\ UNCHANGED <<homeWs, sessions, isTyping, sessionId, browserVars>>
  /\ UNCHANGED <<runVars, settingsVars, timelineVars>>

\* testsApi.create rejected: the catch logs
SaveTestFail ==
  /\ saveTasks > 0
  /\ saveTasks' = saveTasks - 1
  /\ UNCHANGED <<homeWs, sessions, chatVars, browserVars>>
  /\ UNCHANGED <<runVars, settingsVars, timelineVars>>

\* what AssertionEditor hands to onSave for a new assertion
NewAssertions == {[type |-> "assert_visible", selector |-> "#x"]}

IsAssertion(step) == step.type \in {"assert_visible", "assert_text"}

\* the ids of the steps handleEditStep opens the editor on
AssertionIds == {timelineSteps[k].id : k \in {j \in 1..Len(timelineSteps) : IsAssertion(timelineSteps[j])}}

\* handleSaveAssertion: updateStep for a step with an id, else addStep
HandleSaveAssertion(id, stepData) ==
  /\ Mounted
  /\ Len(timelineSteps) > 0
  /\ IF id # NoId THEN UpdateStep(id, stepData) ELSE AddStep(stepData)

\* the StepTimeline rendered by Home: select, delete, drag and clear
HomeTimeline ==
  /\ Mounted
  /\ \/ \E id \in TimelineIds : SelectStep(id)
     \/ \E id \in TimelineIds : RemoveStep(id)
     \/ \E fromIndex, toIndex \in 0..(Len(timelineSteps) - 1) :
          fromIndex # toIndex /\ ReorderSteps(fromIndex, toIndex)
     \/ Len(timelineSteps) > 0 /\ ClearSteps

\* useChatStore.clearMessages()
ClearMessages ==
  /\ messages' = <<>>
  /\ UNCHANGED <<homeWs, sessions, isTyping, sessionId, browserVars>>
  /\ UNCHANGED <<runVars, settingsVars, timelineVars, saveTasks>>

\* useBrowserStore.reset()
ResetBrowser ==
  /\ browserStatus' = "idle"
  /\ screenshot' = "null"
  /\ currentUrl' = "null"
  /\ UNCHANGED <<homeWs, sessions, chatVars>>
  /\ UNCHANGED <<runVars, settingsVars, timelineVars, saveTasks>>

NextHome ==
  \/ Mount
  \/ Cleanup
  \/ \E i \in 1..Len(sessions) : CreateSessionOk(i)
  \/ \E i \in 1..Len(sessions) : CreateSessionFail(i)
  \/ \E i \in 1..Len(sessions) : HomeConnectOk(i)
  \/ \E i \in 1..Len(sessions) : HomeConnectFail(i)
  \/ \E i \in 1..Len(sessions) : HomeEvent(i)
  \/ HandleSendMessage
  \/ HandleStartAutomation
  \/ HandleStopAutomation
  \/ HandleSaveTest
  \/ SaveTestOk
  \/ SaveTestFail
  \/ \E stepData \in NewAssertions : HandleSaveAssertion(NoId, stepData)
  \/ \E id \in AssertionIds, stepData \in StepUpdates : HandleSaveAssertion(id, stepData)
  \/ HomeTimeline
  \/ ClearMessages
  \/ ResetBrowser

SpecHome == Init /\ [][NextHome]_vars

(* ------------------------------ claims --------------------------------- *)
StepEventOf(r) ==
  SrvStepRunning(r) \/ SrvStepPassed(r) \/ SrvStepFailed(r) \/ SrvStepHealed(r)

RunEndOf(r) == SrvComplete(r) \/ SrvError(r)

ResponseSent == \E approved \in BOOLEAN : HandleApprovalResponse(approved) /\ ws # NoSocket

TerminalStatuses == {"passed", "failed", "healed", "skipped"}

SelectorsOf(list) ==
  [k \in 1..Len(list) |-> <<list[k].selector, list[k].original_selector>>]

StatusesOf(list) == [k \in 1..Len(list) |-> list[k].status]

\* C1: a run emits one terminal event (complete or error) and it is its last
\* event: handling it sets runStatus to passed or failed, disconnects the
\* run's socket and clears ws, and no event of that run is handled afterwards
C1_TerminalUniqueness ==
  /\ [](\A r \in Runs : srv[r].phase = "done" => sock[r] = "closed" /\ ws # r)
  /\ [][\A r \in Runs :
          /\ RunEndOf(r) => /\ runStatus' \in {"passed", "failed"}
                            /\ sock'[r] = "closed" /\ ws' = NoSocket
                            /\ srv'[r].phase = "done"
          /\ srv[r].phase = "done" => ~EngineEvent(r) /\ srv'[r] = srv[r]]_vars

C1_Witness ==
  \E r \in Runs : srv[r].phase = "done" /\ sock[r] = "closed" /\ runStatus = "passed"

\* C2 (as claimed): once Stop was pressed in a run, no later event of that
\* run changes stepStatuses or runStatus
C2_StopAbortsRun ==
  [][\A r \in stoppedRuns :
       EngineEvent(r) => stepStatuses' = stepStatuses /\ runStatus' = runStatus]_vars

\* C3 (as claimed): the next step event handled after an approval_request
\* for step i is for step i and comes after the response to that request
C3_GateCorrectness ==
  [][\A r \in Runs :
       StepEventOf(r) /\ gate # <<>> => srv[r].cur = gate[1].step /\ gate[1].answered]_vars

\* C4: every approval_response answers a request that is shown and was not
\* answered before, and takes the request off the page, so that no request
\* is answered twice
C4_ResolvedOnce ==
  /\ [](~answered)
  /\ [][ResponseSent => pendingApproval # <<>> /\ ~answered /\ pendingApproval' = <<>>]_vars

C4_Witness == gate # <<>> /\ gate[1].answered /\ pendingApproval = <<>>

\* C5 (as claimed): an approval_response is sent only on the socket of the
\* run whose approval_request is outstanding
C5_ResponseToOwnRun ==
  [][ResponseSent => pendingFrom = ws /\ srv[ws].phase = "gate"]_vars

\* C6 (as claimed): stopRun with a pending approval leaves the run not
\* running and no approval request on the page
C6_StopUnblocksApproval ==
  [][StopRun /\ pendingApproval # <<>> =>
       runStatus' # "running" /\ pendingApproval' = <<>>]_vars

\* C7 (as claimed): a suggestion marked auto_approved has a confidence of at
\* least the threshold, under a policy with autoApprove
C7_AutoApproveThreshold ==
  \A k \in 1..Len(healingSuggestions) :
    healingSuggestions[k].auto_approved =>
      /\ healingSuggestions[k].confidence >= policy.threshold
      /\ policy.autoApprove

\* C8: the stored test and the selectors of the steps change only when a
\* persist call of handleApproveHealing resolves; an event, a response, a
\* start or a stop changes neither
C8_PersistOnlyOnApprove ==
  [][loadTask = "done" =>
       /\ (stored' # stored \/ SelectorsOf(stepStatuses') # SelectorsOf(stepStatuses))
            => ApproveApiOk
       /\ (ResponseSent \/ \E r \in Runs : EngineEvent(r))
            => stored' = stored /\ SelectorsOf(stepStatuses') = SelectorsOf(stepStatuses)]_vars

C8_Witness ==
  /\ stored = StoredTest
  /\ \E k \in 1..Len(stepStatuses) :
       /\ stepStatuses[k].status = "healed"
       /\ stepStatuses[k].selector = SelectorOf(stepStatuses[k].id)
  /\ \E k \in 1..Len(healingSuggestions) : healingSuggestions[k].auto_approved

\* C9 (as claimed): while a run is running the ids of the step list, their
\* number and order do not change
C9_StepListImmutable ==
  [][runStatus = "running" /\ runStatus' = "running" =>
       IdsOf(stepStatuses') = IdsOf(stepStatuses)]_vars

\* C10 (as claimed): within a run a step status that is passed, failed,
\* healed or skipped does not change any more
C10_StatusMonotonic ==
  [][runStatus = "running" /\ runStatus' = "running" =>
       \A k \in 1..Len(stepStatuses) :
         stepStatuses[k].status \in TerminalStatuses =>
           /\ k <= Len(stepStatuses')
           /\ stepStatuses'[k].status = stepStatuses[k].status]_vars

AllPassed(list) == \A k \in 1..Len(list) : list[k].status \in {"passed", "healed"}

AnyFailed(list) == \E k \in 1..Len(list) : list[k].status = "failed"

OpenSockets == {r \in Runs : sock[r] = "open"}

\* C11 (as claimed): when the terminal event of a run was handled, runStatus
\* is passed exactly if every step is passed or healed, and it is failed if
\* some step is failed
C11_RunStatusFromSteps ==
  [][\A r \in Runs :
       RunEndOf(r) => /\ runStatus' = "passed" <=> AllPassed(stepStatuses')
                      /\ AnyFailed(stepStatuses') => runStatus' = "failed"]_vars

\* C12 (as claimed): an error event puts the run in the status error, which
\* is not failed and which neither complete(success=false) nor a failed
\* connect produces
C12_ErrorStatusDistinct ==
  [][/\ \A r \in Runs : SrvError(r) => runStatus' = "error" /\ runStatus' # "failed"
     /\ \A r \in Runs : SrvComplete(r) \/ ConnectFail(r) => runStatus' # "error"]_vars

\* C13 (as claimed): after Stop is pressed while a step is running, no step
\* is left in status running or given passed / failed by the stop, and the
\* run-level status is stopped
C13_StopSkipsRunningStep ==
  [][StopRun /\ (\E k \in 1..Len(stepStatuses) : stepStatuses[k].status = "running") =>
       /\ \A k \in 1..Len(stepStatuses') :
            stepStatuses[k].status = "running" => stepStatuses'[k].status = "skipped"
       /\ runStatus' = "stopped"]_vars

\* C14 (as claimed): at most one socket opened by the page is connected, and
\* none is connected while runStatus is not running
C14_OneSessionNoLeak ==
  /\ Cardinality(OpenSockets) <= 1
  /\ runStatus # "running" => OpenSockets = {}

\* C15: Reject on the approval dialog sends approval_response {approved:
\* false} on the connected socket and clears pendingApproval; runStatus, the
\* socket, stepStatuses, metrics and healingSuggestions stay as they are, and
\* the run that asked goes on (to fail the step) instead of ending
C15_RejectKeepsRunning ==
  [][HandleApprovalResponse(FALSE) /\ ws # NoSocket =>
       /\ pendingApproval' = <<>>
       /\ runStatus' = runStatus /\ ws' = ws /\ sock' = sock
       /\ stepStatuses' = stepStatuses
       /\ metrics' = metrics
       /\ healingSuggestions' = healingSuggestions
       /\ \A r \in Runs :
            srv'[r] = IF r = ws /\ srv[r].phase = "gate"
                      THEN [srv[r] EXCEPT !.phase = "rejected"] ELSE srv[r]]_vars

C15_Witness ==
  \E r \in Runs : /\ srv[r].phase = "rejected" /\ ws = r /\ sock[r] = "open"
                  /\ runStatus = "running" /\ pendingApproval = <<>>

\* an approval request is outstanding: shown on the page, its run suspended
\* at the gate, the page running
Outstanding ==
  /\ pendingApproval # <<>> /\ runStatus = "running"
  /\ pendingFrom # 0 /\ srv[pendingFrom].phase = "gate"

\* C16 (as claimed): while an approval request is outstanding, every step
\* other than Approve, Reject, Stop (and a fatal abort) leaves the request on
\* the page and unanswered, runStatus running and all step statuses unchanged
C16_NoApprovalTimeout ==
  [][Outstanding /\ ~StopRun /\ ~(\E r \in Runs : SrvError(r))
       /\ ~(\E approved \in BOOLEAN : HandleApprovalResponse(approved)) =>
       /\ pendingApproval' = pendingApproval
       /\ srv'[pendingFrom].phase = "gate"
       /\ runStatus' = "running"
       /\ StatusesOf(stepStatuses') = StatusesOf(stepStatuses)]_vars

PendingFor(stepIndex) ==
  {k \in 1..Len(healingSuggestions) :
     healingSuggestions[k].step_index = stepIndex /\ ~healingSuggestions[k].auto_approved}

\* C17 (as claimed): for every step index healingSuggestions holds at most
\* one suggestion that is not auto-approved, and at most one run waits at the
\* gate for the request pendingApproval stands for
C17_OneActiveSuggestion ==
  /\ \A i \in 0..NumSteps : Cardinality(PendingFor(i)) <= 1
  /\ Cardinality({r \in Runs : srv[r].phase = "gate"}) <= 1

Prefix(a, b) == Len(a) <= Len(b) /\ SubSeq(b, 1, Len(a)) = a

\* after a step event of run r the entries of its index show that status
\* and its error, the other entries are as before
ShownAs(r, status) ==
  /\ Len(stepStatuses') = Len(stepStatuses)
  /\ \A k \in 1..Len(stepStatuses) :
       IF stepStatuses[k].index = srv[r].cur
       THEN /\ stepStatuses'[k].status = status
            /\ stepStatuses'[k].error = IF status = "failed" THEN "step failed" ELSE Undef
       ELSE stepStatuses'[k] = stepStatuses[k]

\* C18: handling a metrics event appends one entry to metrics and leaves
\* runStatus, stepStatuses, healingSuggestions, pendingApproval and error
\* unchanged; a successful complete gives passed and sets no error also when
\* no metrics arrived
C18_MetricsNoEffect ==
  [][\A r \in Runs :
       /\ SrvMetrics(r) => /\ Len(metrics') = Len(metrics) + 1
                           /\ Prefix(metrics, metrics')
                           /\ runStatus' = runStatus
                           /\ stepStatuses' = stepStatuses
                           /\ healingSuggestions' = healingSuggestions
                           /\ pendingApproval' = pendingApproval
                           /\ error' = error
       /\ SrvComplete(r) /\ srv[r].ok /\ metrics = <<>> =>
            runStatus' = "passed" /\ error' = error /\ metrics' = <<>>]_vars

C18_Witness ==
  /\ Len(metrics) = 1 /\ runStatus = "running"
  /\ \E k \in 1..Len(stepStatuses) :
       stepStatuses[k].index = metrics[1].step_index /\ stepStatuses[k].status = "passed"

C18_PassedWithoutMetrics == runStatus = "passed" /\ metrics = <<>> /\ error = NoError

\* C19: an event never reorders or drops entries of metrics and
\* healingSuggestions, a metrics / healing event appends its entry last, and
\* a step event makes the entries of its index show its status and error
C19_ArrivalOrder ==
  [][\A r \in Runs :
       /\ EngineEvent(r) => Prefix(metrics, metrics') /\ Prefix(healingSuggestions, healingSuggestions')
       /\ SrvMetrics(r) => metrics' = Append(metrics, [step_index |-> srv[r].cur - 1, url |-> "url"])
       /\ \A confidence \in Confidences :
            SrvHealing(r, confidence) =>
              healingSuggestions' = Append(healingSuggestions, Suggestion(srv[r], policy, confidence))
       /\ SrvStepRunning(r) => ShownAs(r, "running")
       /\ SrvStepPassed(r) => ShownAs(r, "passed")
       /\ SrvStepFailed(r) => ShownAs(r, "failed")
       /\ SrvStepHealed(r) => ShownAs(r, "healed")]_vars

C19_Witness ==
  /\ Len(healingSuggestions) = 2
  /\ healingSuggestions[1].confidence # healingSuggestions[2].confidence
  /\ \E k \in 1..Len(stepStatuses) : stepStatuses[k].status = "running"

\* C20: on a loaded 3-step test, when complete(success=true) is handled after
\* step(0,running), step(0,passed), step(1,running), step(1,passed),
\* step(2,running), healing(2, 0.92, auto-approved), step(2,healed), the
\* steps are passed, passed, healed, runStatus is passed, error is null, the
\* one suggestion is listed, no approval is pending, and no event of the run
\* has opened the healing panel (Stop is not part of the scenario: runs of a
\* page on which Stop was pressed are left aside)
C20_AutoHealScenario ==
  [][\A r \in Runs :
       /\ SrvComplete(r) /\ stoppedRuns = {} =>
            /\ StatusesOf(stepStatuses') = <<"passed", "passed", "healed">>
            /\ runStatus' = "passed"
            /\ error' = NoError
            /\ healingSuggestions' =
                 <<[step_index |-> Len(stepStatuses') - 1,
                    original_selector |-> stepStatuses'[Len(stepStatuses')].selector,
                    suggested_selector |-> SuggestedFor(stepStatuses'[Len(stepStatuses')].id),
                    confidence |-> HighConfidence,
                    auto_approved |-> TRUE]>>
            /\ pendingApproval' = <<>>
       /\ ScenarioEvent(r) => showHealing' = showHealing]_vars

C20_Witness ==
  /\ runStatus = "passed" /\ error = NoError /\ stoppedRuns = {}
  /\ StatusesOf(stepStatuses) = <<"passed", "passed", "healed">>
  /\ Len(healingSuggestions) = 1 /\ healingSuggestions[1].auto_approved

\* C22: every entry of stepStatuses carries its own position as index
\* (index is 0-based), whatever loadTest, deleteStep, startRun, step events
\* and handleApproveHealing have done
C22_IndexIsPosition ==
  \A k \in 1..Len(stepStatuses) : stepStatuses[k].index = k - 1

C22_Witness ==
  /\ Len(stepStatuses) = Len(EditTest) - 1
  /\ \E k \in 1..Len(stepStatuses) :
       stepStatuses[k].id # k /\ stepStatuses[k].status # "pending"

\* what a step event of run r with that status does to stepStatuses
StepFrame(r, status) ==
  /\ Len(stepStatuses') = Len(stepStatuses)
  /\ \A k \in 1..Len(stepStatuses) :
       stepStatuses'[k] =
         IF stepStatuses[k].index = srv[r].cur
         THEN [stepStatuses[k] EXCEPT
                 !.status = status,
                 !.error = IF status = "failed" THEN "step failed" ELSE Undef]
         ELSE stepStatuses[k]
  /\ (\A k \in 1..Len(stepStatuses) : stepStatuses[k].index # srv[r].cur)
       => stepStatuses' = stepStatuses

\* C23: a step event {index, status, error} overwrites status and error of
\* the entries with that index (the error also when the event has none) and
\* changes nothing else of stepStatuses
C23_StepEventFrame ==
  [][\A r \in Runs :
       /\ SrvStepRunning(r) => StepFrame(r, "running")
       /\ SrvStepPassed(r) => StepFrame(r, "passed")
       /\ SrvStepFailed(r) => StepFrame(r, "failed")
       /\ SrvStepHealed(r) => StepFrame(r, "healed")]_vars

\* a step event found no entry with its index (the list was shortened by
\* deleteStep during the run), and a step event without error found an entry
\* that carried the error of an earlier event
C23_Witness ==
  /\ noted = {"no entry", "error erased"}
  /\ Len(stepStatuses) < Len(StoredTest)
  /\ \E k \in 1..Len(stepStatuses) :
       stepStatuses[k].status = "running" /\ stepStatuses[k].error = Undef

\* C24: with a test loaded, the synchronous part of startRun gives runStatus
\* running, error null, no metrics, no suggestions, the panel closed and all
\* statuses pending with the entries otherwise unchanged; with no test it
\* changes nothing; a failed connect gives failed with 'Failed to start test
\* run' and stores no socket
C24_CleanStart ==
  [][\A r \in Runs :
       /\ StartRun(r) /\ test =>
            /\ runStatus' = "running" /\ error' = NoError
            /\ metrics' = <<>> /\ healingSuggestions' = <<>> /\ showHealing' = FALSE
            /\ Len(stepStatuses') = Len(stepStatuses)
            /\ \A k \in 1..Len(stepStatuses) :
                 stepStatuses'[k] = [stepStatuses[k] EXCEPT !.status = "pending"]
       /\ StartRun(r) /\ ~test => UNCHANGED <<pageVars, sock>>
       /\ ConnectFail(r) =>
            /\ runStatus' = "failed" /\ error' = "Failed to start test run"
            /\ ws' = ws /\ ws' # r]_vars

C24_Witness ==
  /\ sock[MaxRuns] = "connecting" /\ runStatus = "running"
  /\ error = NoError /\ healingSuggestions = <<>>
  /\ \E k \in 1..Len(stepStatuses) : stepStatuses[k].error # Undef
  /\ \A k \in 1..Len(stepStatuses) : stepStatuses[k].status = "pending"

\* C25: a failed persist call leaves healingSuggestions, stepStatuses and the
\* stored test unchanged and sets error; Apply on a suggestion whose step has
\* no id changes nothing; isHealingProcessing is true exactly while a call of
\* handleApproveHealing is pending and false when the last one has finished
C25_ApproveAllOrNothing ==
  /\ [](isHealingProcessing <=> healTask # <<>>)
  /\ [][/\ ApproveApiFail =>
             /\ healingSuggestions' = healingSuggestions
             /\ stepStatuses' = stepStatuses
             /\ stored' = stored
             /\ error' = "Failed to apply healing suggestion"
        /\ (ApproveApiOk \/ ApproveApiFail) /\ Len(healTask[1].queue) = 1 =>
             ~isHealingProcessing' /\ healTask' = <<>>
        /\ \A k \in 1..Len(healingSuggestions) :
             /\ HandleApproveHealing(k)
             /\ StepIdAt(IdsOf(stepStatuses), healingSuggestions[k].step_index) = NoId
             => UNCHANGED <<pageVars, stored, healTask>>]_vars

C25_Witness ==
  /\ error = "Failed to apply healing suggestion"
  /\ ~isHealingProcessing /\ healTask = <<>>
  /\ \E k \in 1..Len(healingSuggestions) : ~healingSuggestions[k].auto_approved
  /\ stored = EditTest

HasId(stepIndex) == StepIdAt(IdsOf(stepStatuses), stepIndex) # NoId

StoredSelector(stepId) ==
  LET k == CHOOSE k \in 1..Len(stored) : stored[k].id = stepId IN stored[k].selector

\* b is what is left of a after dropping entries from its front
Suffix(b, a) == Len(b) <= Len(a) /\ SubSeq(a, Len(a) - Len(b) + 1, Len(a)) = b

\* C26: Apply All approves the pending suggestions in list order, one
\* persist call at a time; each resolved call marks the suggestion
\* auto_approved and puts its suggested_selector on the step (original
\* recorded); when the last call has resolved no suggestion of a step with an
\* id is pending; suggestions that arrived auto-approved are never persisted
C26_ApproveAllCompletes ==
  /\ [](\A k \in 1..Len(healingSuggestions) :
          LET sug == healingSuggestions[k] IN
          HasId(sug.step_index) =>
            /\ sug.confidence >= policy.threshold =>
                 StoredSelector(stepStatuses[sug.step_index + 1].id) = sug.original_selector
            /\ sug.confidence < policy.threshold /\ sug.auto_approved =>
                 /\ stepStatuses[sug.step_index + 1].selector = sug.suggested_selector
                 /\ stepStatuses[sug.step_index + 1].original_selector = sug.original_selector
                 /\ StoredSelector(stepStatuses[sug.step_index + 1].id) = sug.suggested_selector)
  /\ [][/\ HandleApproveAllHealing =>
             /\ healTask' # <<>>
             /\ Suffix(healTask'[1].queue, PendingSuggestions(healingSuggestions))
             /\ HasId(Head(PendingSuggestions(healingSuggestions)).step_index) =>
                  healTask'[1].queue = PendingSuggestions(healingSuggestions)
        /\ ApproveApiOk =>
             /\ \A k \in 1..Len(healingSuggestions') :
                  healingSuggestions'[k].step_index = Head(healTask[1].queue).step_index
                    => healingSuggestions'[k].auto_approved
             /\ healTask' # <<>> => Suffix(healTask'[1].queue, Tail(healTask[1].queue))
             /\ healTask' = <<>> =>
                  \A k \in 1..Len(healingSuggestions') :
                    HasId(healingSuggestions'[k].step_index)
                      => healingSuggestions'[k].auto_approved]_vars

C26_Witness ==
  /\ healTask = <<>> /\ ~isHealingProcessing
  /\ \E k, j, a \in 1..Len(healingSuggestions) :
       /\ k # j
       /\ healingSuggestions[k].confidence < policy.threshold
       /\ healingSuggestions[j].confidence < policy.threshold
       /\ healingSuggestions[k].auto_approved /\ healingSuggestions[j].auto_approved
       /\ healingSuggestions[a].confidence >= policy.threshold

\* the call with number i has acted in this step
UpdateStepOf(i) ==
  \/ i = Len(updates) + 1 /\ Len(updates') = i
  \/ i \in 1..Len(updates) /\ updates'[i] # updates[i]

\* C21 (as claimed): every submitted threshold is k/100 with k in 50..99,
\* hence within [0,1], every submitted mode is inline, batch or both, a
\* request carries the one key of the call, and a call of updateSetting
\* changes no other key of the settings than its own
C21_ValidSingleKey ==
  /\ [](\A i \in 1..Len(updates) :
          /\ updates[i].key = "auto_approve_threshold" =>
               /\ updates[i].value \in SliderMin..SliderMax
               /\ updates[i].value >= 0 /\ updates[i].value <= 100
          /\ updates[i].key = "mode" => updates[i].value \in Modes
          /\ updates[i].body = {<<updates[i].key, updates[i].value>>})
  /\ [][\A i \in 1..MaxUpdates :
          UpdateStepOf(i) =>
            \A key \in SettingKeys \ {updates'[i].key} : settings'[1][key] = settings[1][key]]_vars

\* the loaded settings with the updates whose save succeeded, in call order
RECURSIVE Saved(_, _)
Saved(base, calls) ==
  IF calls = <<>> THEN base
  ELSE Saved(IF Head(calls).phase = "ok"
             THEN WithSetting(base, Head(calls).key, Head(calls).value) ELSE base,
             Tail(calls))

Settled == \A i \in 1..Len(updates) : updates[i].phase # "pending"

\* C27 (as claimed): updateSetting shows the new value at once, a failed
\* save puts back the value the call replaced, and when all calls have
\* finished the local settings are the loaded ones with exactly the saved
\* updates applied
C27_RollbackKeepsSaved ==
  /\ [](settings # NoSettings /\ Settled => settings[1] = Saved(DefaultSettings, updates))
  /\ [][\A i \in 1..MaxUpdates :
          /\ UpdateStepOf(i) /\ i > Len(updates) =>
               settings'[1][updates'[i].key] = updates'[i].value
          /\ UpdateStepOf(i) /\ i <= Len(updates) /\ updates'[i].phase = "failed" =>
               settings'[1][updates[i].key] = updates[i].snapshot[updates[i].key]]_vars

\* C29 (as claimed): selectedStepId is null or the id of a step in steps;
\* removeStep of the selected step clears the selection, removeStep of
\* another step leaves it as it is
C29_SelectionInSteps ==
  /\ [](selectedStepId = NoId \/ selectedStepId \in TimelineIds)
  /\ [][\A id \in TimelineIds :
          RemoveStep(id) =>
            selectedStepId' = IF selectedStepId = id THEN NoId ELSE selectedStepId]_vars

\* the list without the step at position fromIndex (0-based)
Others(list, fromIndex) == RemoveAt(list, fromIndex)

\* C30: reorderSteps(from, to) inside the list keeps length and steps, puts
\* the step of position from at position to, keeps the order of the other
\* steps, is the identity for from = to, and leaves selectedStepId alone
C30_ReorderIsMove ==
  [][\A fromIndex, toIndex \in 0..(Len(timelineSteps) - 1) :
       ReorderSteps(fromIndex, toIndex) =>
         /\ Len(timelineSteps') = Len(timelineSteps)
         /\ {timelineSteps'[k] : k \in 1..Len(timelineSteps')} = {timelineSteps[k] : k \in 1..Len(timelineSteps)}
         /\ timelineSteps'[toIndex + 1] = timelineSteps[fromIndex + 1]
         /\ Others(timelineSteps', toIndex) = Others(timelineSteps, fromIndex)
         /\ fromIndex = toIndex => timelineSteps' = timelineSteps
         /\ selectedStepId' = selectedStepId]_vars

\* every created step is in the list, the last created one moved to the front
\* and selected
C30_Witness ==
  /\ idCount = MaxAdds
  /\ TimelineIds = {Uuid(n) : n \in 1..idCount}
  /\ timelineSteps[1].id = Uuid(idCount)
  /\ selectedStepId = Uuid(idCount)

\* C28 (as claimed): once the cleanup of the effect has run, the socket created
\* by that run of initSession is not connecting or open, and no event of it
\* changes the chat, browser or timeline store
C28_NoSocketLeak ==
  /\ [](\A i \in 1..Len(sessions) :
          sessions[i].cleaned => sessions[i].socket \notin {"connecting", "open"})
  /\ [][\A i \in 1..Len(sessions) :
          sessions[i].cleaned /\ HomeEvent(i) =>
            UNCHANGED <<chatVars, browserVars, timelineVars>>]_vars

====
